---- MODULE Spec2Model ----
(***************************************************************************)
(* Glyph metrics cache, glyph raster cache and multi-face facade of        *)
(* crates/epaint/src/text/font.rs.                                         *)
(*                                                                         *)
(* f32 values are modelled as exact rationals <<n, d>> (d > 0, lowest      *)
(* terms); f32 rounding error is not modelled.  Option<T> is modelled as   *)
(* [some |-> FALSE] / [some |-> TRUE, v |-> x].  A panic is modelled by    *)
(* the variable `panic` holding the panic message; a panicked program      *)
(* takes no further step.                                                  *)
(***************************************************************************)
EXTENDS Integers, Sequences, FiniteSets, TLC

(***************************************************************************)
(* Bounds of the model.                                                    *)
(***************************************************************************)
\* number of operations performed in one behaviour
MaxSteps == 2

(***************************************************************************)
(* Let(v, Body) is Body(v) with v evaluated exactly once.                  *)
(***************************************************************************)
Let(v, Body(_)) == CHOOSE y \in {Body(w) : w \in {v}} : TRUE

(***************************************************************************)
(* Exact rational arithmetic standing in for f32.                          *)
(***************************************************************************)
Abs(x) == IF x < 0 THEN -x ELSE x

RECURSIVE Gcd(_, _)
Gcd(a, b) == IF b = 0 THEN a ELSE Gcd(b, a % b)

\* n / d in lowest terms with a positive denominator
Norm(n, d) ==
    IF n = 0 THEN <<0, 1>>
    ELSE Let(Gcd(Abs(n), Abs(d)),
             LAMBDA g : IF d < 0 THEN <<(-n) \div g, (-d) \div g>>
                        ELSE <<n \div g, d \div g>>)

Rat(n, d) == Let(<<n, d>>, LAMBDA p : Norm(p[1], p[2]))
R(n) == <<n, 1>>
RMul(a, b) == Let(<<a, b>>, LAMBDA p : Norm(p[1][1] * p[2][1], p[1][2] * p[2][2]))
RDiv(a, b) == Let(<<a, b>>, LAMBDA p : Norm(p[1][1] * p[2][2], p[1][2] * p[2][1]))
RAdd(a, b) ==
    Let(<<a, b>>, LAMBDA p : Norm(p[1][1] * p[2][2] + p[2][1] * p[1][2], p[1][2] * p[2][2]))
RSub(a, b) ==
    Let(<<a, b>>, LAMBDA p : Norm(p[1][1] * p[2][2] - p[2][1] * p[1][2], p[1][2] * p[2][2]))
RLess(a, b) == Let(<<a, b>>, LAMBDA p : p[1][1] * p[2][2] < p[2][1] * p[1][2])

\* f32::min
RMin(a, b) ==
    Let(<<a, b>>, LAMBDA p : IF p[2][1] * p[1][2] < p[1][1] * p[2][2] THEN p[2] ELSE p[1])

\* largest integer <= a, smallest integer >= a
FloorI(a) == Let(a, LAMBDA p : p[1] \div p[2])
CeilI(a) == Let(a, LAMBDA p : -((-p[1]) \div p[2]))

\* f32::round: to the nearest integer, half-way cases away from zero
RoundI(a) ==
    Let(a, LAMBDA p : IF p[1] >= 0 THEN (2 * p[1] + p[2]) \div (2 * p[2])
                      ELSE -((2 * (-p[1]) + p[2]) \div (2 * p[2])))

\* `x as usize` of a non-negative integer-valued float
AsUsize(n) == IF n <= 0 THEN 0 ELSE n

\* `x as u16` of a usize: truncation to the low 16 bits
AsU16(n) == n % 65536

\* emath::GuiRounding::round_ui: round to a multiple of GUI_ROUNDING = 1/32
round_ui(a) == Rat(RoundI(RMul(a, R(32))), 32)

None == [some |-> FALSE]
Some(x) == [some |-> TRUE, v |-> x]

(***************************************************************************)
(* Code points the source names.                                           *)
(***************************************************************************)
TAB == 9
CR == 13
SPACE == 32
THIN_SPACE == 8201
FIRST_ASCII == 32
LAST_ASCII == 126
DEGREE == 176
PASSWORD_REPLACEMENT_CHAR == 8226
TAB_SIZE == 4

\* the designated character whose resolution is the family's replacement glyph
REPLACEMENT_CHAR == 9723

\* FontFaceKey::default(): the key of no face
INVALID_KEY == 0

\* the characters matched by FontImpl::ignore_character:
\* U+534D, U+5350, U+E0FF, U+EFFD, U+F0FF, U+F200
IgnoredChars == {21325, 21328, 57599, 61437, 61695, 61952}

\* the characters matched by invisible_char: '\r', U+200B..U+200F,
\* U+202A..U+202E, U+2060..U+2064, U+2066..U+206F, U+FEFF
InvisibleChars ==
    {CR} \cup (8203..8207) \cup (8234..8238) \cup (8288..8292)
         \cup (8294..8303) \cup {65279}

\* invisible_char without its first case, the carriage return
invisible_char_no_cr(c) == c \in InvisibleChars \ {CR}

invisible_char(c) == c \in InvisibleChars

\* FontDefinitions::builtin_font_names()
builtin_font_names == {"Hack", "Ubuntu-Light", "NotoEmoji-Regular", "emoji-icon-font"}

(***************************************************************************)
(* The outline fonts (ab_glyph::FontArc) the faces wrap.  Four fonts:      *)
(*   "A"  a text font: unitsPerEm 1000 = height, maps printable ASCII,     *)
(*        the replacement character and two denylisted characters;         *)
(*   "B"  a fallback font: unitsPerEm 2048, height 2400, narrow space;     *)
(*   "C"  a font that reports no unitsPerEm, maps space;                   *)
(*   "D"  a font without a space glyph that maps tab, thin space and       *)
(*        carriage return directly.                                        *)
(***************************************************************************)
FontNames == {"A", "B", "C", "D"}

CodepointsA ==
    (FIRST_ASCII..LAST_ASCII)
        \cup {DEGREE, PASSWORD_REPLACEMENT_CHAR, REPLACEMENT_CHAR, 21325, 57599, 65279}
CodepointsB == {SPACE, 97, 8203, 21325, 128512}
CodepointsC == {SPACE, 97}
CodepointsD == {TAB, CR, 97, THIN_SPACE}

\* ab_glyph::Font::codepoint_ids: the characters the font maps
codepoint_ids(f) ==
    CASE f = "A" -> CodepointsA
      [] f = "B" -> CodepointsB
      [] f = "C" -> CodepointsC
      [] f = "D" -> CodepointsD

\* ab_glyph::Font::glyph_id: 0 for a character the font does not map
glyph_id(f, c) ==
    IF c \notin codepoint_ids(f) THEN 0
    ELSE CASE f = "A" -> (IF c <= LAST_ASCII THEN c - 31
                          ELSE (CASE c = DEGREE -> 96
                                  [] c = PASSWORD_REPLACEMENT_CHAR -> 97
                                  [] c = REPLACEMENT_CHAR -> 98
                                  [] c = 21325 -> 99
                                  [] c = 57599 -> 100
                                  [] c = 65279 -> 101))
           [] f = "B" -> (CASE c = 97 -> 1 [] c = 128512 -> 2 [] c = SPACE -> 3
                            [] c = 21325 -> 4 [] c = 8203 -> 5)
           [] f = "C" -> (CASE c = SPACE -> 1 [] c = 97 -> 2)
           [] f = "D" -> (CASE c = TAB -> 1 [] c = THIN_SPACE -> 2 [] c = CR -> 3
                            [] c = 97 -> 4)

\* ab_glyph::Font::h_advance_unscaled
h_advance_unscaled(f, id) ==
    CASE f = "A" -> (IF id = 1 THEN R(500) ELSE IF id = 98 THEN R(1000) ELSE R(600))
      [] f = "B" -> (IF id = 3 THEN R(600) ELSE R(2048))
      [] f = "C" -> (IF id = 1 THEN R(400) ELSE R(500))
      [] f = "D" -> (IF id = 1 THEN R(800) ELSE IF id = 2 THEN R(200) ELSE R(500))

\* ab_glyph::Font::kern_unscaled: the unscaled kerning of a glyph pair
kern_unscaled(f, first, second) ==
    CASE f = "A" -> (IF first = second THEN R(-50) ELSE R(0))
      [] f = "B" -> (IF first = second THEN R(-128) ELSE R(0))
      [] f = "C" -> R(0)
      [] f = "D" -> (IF first = second THEN R(-40) ELSE R(0))

\* ab_glyph::Font::units_per_em: None when outside 16..=16384
units_per_em(f) ==
    CASE f = "A" -> Some(R(1000))
      [] f = "B" -> Some(R(2048))
      [] f = "C" -> None
      [] f = "D" -> Some(R(1000))

ascent_unscaled(f) ==
    CASE f = "A" -> R(800) [] f = "B" -> R(1900) [] f = "C" -> R(900) [] f = "D" -> R(750)

descent_unscaled(f) ==
    CASE f = "A" -> R(-200) [] f = "B" -> R(-500) [] f = "C" -> R(-300) [] f = "D" -> R(-250)

line_gap_unscaled(f) ==
    CASE f = "A" -> R(0) [] f = "B" -> R(0) [] f = "C" -> R(100) [] f = "D" -> R(90)

\* ab_glyph::Font::height_unscaled = ascent - descent
height_unscaled(f) == RSub(ascent_unscaled(f), descent_unscaled(f))

\* ab_glyph::Font::outline: the unscaled bounding box of the glyph's outline
\* (y up), None for a glyph without outline (the space glyphs).  Glyph 93 of
\* "A" ('|') is given an outline of zero width.
outline(f, id) ==
    CASE f = "A" -> (IF id = 1 THEN None
                     ELSE IF id = 93
                     THEN Some([x_min |-> 0, y_min |-> -200, x_max |-> 0, y_max |-> 800])
                     ELSE Some([x_min |-> 50, y_min |-> -200, x_max |-> 550, y_max |-> 700]))
      [] f = "B" -> (IF id = 3 THEN None
                     ELSE Some([x_min |-> 0, y_min |-> -400, x_max |-> 2048, y_max |-> 1800]))
      [] f = "C" -> (IF id = 1 THEN None
                     ELSE Some([x_min |-> 40, y_min |-> 0, x_max |-> 460, y_max |-> 700]))
      [] f = "D" -> (IF id \in {1, 2, 3} THEN None
                     ELSE Some([x_min |-> 30, y_min |-> 0, x_max |-> 470, y_max |-> 500]))

\* ab_glyph::Font::outline_glyph + OutlinedGlyph::px_bounds at pixel scale
\* `scale`, position (0, 0): the box scaled by scale / height_unscaled, y
\* flipped, min floored and max ceiled.
outline_glyph(f, id, scale) ==
    Let(<<outline(f, id), RDiv(scale, height_unscaled(f))>>,
        LAMBDA p :
            IF ~p[1].some THEN None
            ELSE Some([min_x |-> FloorI(RMul(R(p[1].v.x_min), p[2])),
                       min_y |-> FloorI(RMul(R(-p[1].v.y_max), p[2])),
                       max_x |-> CeilI(RMul(R(p[1].v.x_max), p[2])),
                       max_y |-> CeilI(RMul(R(-p[1].v.y_min), p[2]))]))

(***************************************************************************)
(* Plain data: GlyphInfo, UvRect, GlyphAllocation.                         *)
(***************************************************************************)
GlyphInfo(id, advance_width_unscaled, visible) ==
    [id |-> id, advance_width_unscaled |-> advance_width_unscaled, visible |-> visible]

\* impl Default for GlyphInfo: basically a zero-width space
GlyphInfo_default == GlyphInfo(0, R(0), FALSE)

\* #[derive(Default)] UvRect
UvRect_default ==
    [offset |-> <<R(0), R(0)>>, size |-> <<R(0), R(0)>>, min |-> <<0, 0>>, max |-> <<0, 0>>]

is_nothing(uv) == uv.min = uv.max

\* #[derive(Default)] GlyphAllocation
GlyphAllocation_default == [id |-> 0, advance_width |-> R(0), uv_rect |-> UvRect_default]

EmptyMap == [x \in {} |-> x]

\* an insertion that empties the map first
MapInsert_replace(m, k, v) == (k :> v)

\* HashMap::insert
MapInsert(m, k, v) == (k :> v) @@ m

(***************************************************************************)
(* TextureAtlas: the external packed atlas.  allocate places the region    *)
(* at the cursor, starting a new row when the region does not fit in the   *)
(* current one; `allocs` counts the calls of allocate.                     *)
(***************************************************************************)
ATLAS_MAX_WIDTH == 64
ATLAS_PADDING == 1

TextureAtlas_new == [cursor |-> <<0, 0>>, row_height |-> 0, allocs |-> 0]

TextureAtlas_allocate(atlas, w, h) ==
    LET newrow == atlas.cursor[1] + w > ATLAS_MAX_WIDTH
        cur == IF newrow THEN <<0, atlas.cursor[2] + atlas.row_height + ATLAS_PADDING>>
               ELSE atlas.cursor
        rh == IF newrow THEN h ELSE IF h > atlas.row_height THEN h ELSE atlas.row_height
    IN  [pos |-> cur,
         atlas |-> [cursor |-> <<cur[1] + w + ATLAS_PADDING, cur[2]>>,
                    row_height |-> rh,
                    allocs |-> atlas.allocs + 1]]

(***************************************************************************)
(* FontExt: pt_scale_factor and pt_scaled.                                 *)
(***************************************************************************)
PANIC_UNITS == "The font unit size exceeds the expected range (16..=16384)"
PANIC_ID0 == "Can't allocate glyph for id 0"
PANIC_FONT_ID == "Nonexistent font ID"
NoPanic == ""

\* pt_scale_factor panics when the font reports no unitsPerEm
pt_scale_factor_panics(f) == ~units_per_em(f).some

\* scale * (height_unscaled / units_per_em)
pt_scale_factor(f, scale) ==
    RMul(scale, RDiv(height_unscaled(f), units_per_em(f).v))

\* PxScaleFont{font, scale: pt_scale_factor(scale)}.ascent():
\* scale.y / height_unscaled * ascent_unscaled
pt_scaled_ascent(f, scale) ==
    RMul(RDiv(pt_scale_factor(f, scale), height_unscaled(f)), ascent_unscaled(f))

pt_scaled_descent(f, scale) ==
    RMul(RDiv(pt_scale_factor(f, scale), height_unscaled(f)), descent_unscaled(f))

pt_scaled_line_gap(f, scale) ==
    RMul(RDiv(pt_scale_factor(f, scale), height_unscaled(f)), line_gap_unscaled(f))

(***************************************************************************)
(* FontImpl: one face.                                                     *)
(***************************************************************************)
FontImpl_new(name, ab_glyph_font, tweak) ==
    [name |-> name, ab_glyph_font |-> ab_glyph_font, tweak |-> tweak,
     glyph_info_cache |-> EmptyMap, glyph_alloc_cache |-> EmptyMap]

\* a face that ignores no character
ignore_character_never(self, chr) == FALSE

ignore_character(self, chr) ==
    IF self.name \notin builtin_font_names THEN FALSE
    ELSE chr \in IgnoredChars

\* FontImpl::characters: the mapped characters minus the ignored ones
FontImpl_characters(self) ==
    {chr \in codepoint_ids(self.ab_glyph_font) : ~ignore_character(self, chr)}

\* a tab as wide as one space
TabGlyphInfo_one_space(space) == space

\* the tab identity derived from the space identity
TabGlyphInfo(space) ==
    [space EXCEPT !.advance_width_unscaled =
        RMul(R(TAB_SIZE), space.advance_width_unscaled)]

\* a thin space of half a space whatever the em size
ThinSpaceGlyphInfo_half_space(self, space) ==
    [space EXCEPT !.advance_width_unscaled = RMul(space.advance_width_unscaled, Rat(1, 2))]

\* the thin-space identity derived from the space identity
ThinSpaceGlyphInfo(self, space) ==
    LET em == IF units_per_em(self.ab_glyph_font).some
              THEN units_per_em(self.ab_glyph_font).v ELSE R(1)
        advance_width == RMin(RDiv(em, R(6)), RMul(space.advance_width_unscaled, Rat(1, 2)))
    IN  [space EXCEPT !.advance_width_unscaled = advance_width]

\* a font lookup that takes glyph id 0 for a glyph
FontLookup_notdef(self, c) ==
    Let(glyph_id(self.ab_glyph_font, c),
        LAMBDA id : Some(GlyphInfo(id, h_advance_unscaled(self.ab_glyph_font, id), TRUE)))

\* "Add new character": the font lookup at the end of glyph_info
FontLookup(self, c) ==
    Let(glyph_id(self.ab_glyph_font, c),
        LAMBDA id : IF id = 0 THEN None
                    ELSE Some(GlyphInfo(id, h_advance_unscaled(self.ab_glyph_font, id), TRUE)))

\* return Some(glyph_info) without the insertion
InsertAndReturn_no_insert(self, c, glyph_info, calls) ==
    [ret |-> Some(glyph_info), self |-> self, calls |-> calls]

\* self.glyph_info_cache.insert(c, glyph_info); return Some(glyph_info)
InsertAndReturn(self, c, glyph_info, calls) ==
    Let(glyph_info,
        LAMBDA g : [ret |-> Some(g),
                    self |-> [self EXCEPT !.glyph_info_cache =
                                 MapInsert(self.glyph_info_cache, c, g)],
                    calls |-> calls])

\* the rules applied to a face that did not keep the space's entry the
\* recursive call made for a tab
GlyphInfoRules_space_uncached(self, c, space, calls) ==
    IF c = TAB /\ space.some
    THEN InsertAndReturn([self EXCEPT !.glyph_info_cache =
                             [k \in DOMAIN self.glyph_info_cache \ {SPACE} |->
                                 self.glyph_info_cache[k]]],
                         c, TabGlyphInfo(space.v), calls)
    ELSE IF c = THIN_SPACE /\ space.some
    THEN InsertAndReturn(self, c, ThinSpaceGlyphInfo(self, space.v), calls)
    ELSE IF invisible_char(c)
    THEN InsertAndReturn(self, c, GlyphInfo_default, calls)
    ELSE Let(FontLookup(self, c),
             LAMBDA r : IF ~r.some THEN [ret |-> None, self |-> self, calls |-> calls]
                        ELSE InsertAndReturn(self, c, r.v, calls))

\* the rules of glyph_info after the cache and the denylist, `space` being
\* the result of glyph_info(' ') for a tab or a thin space
GlyphInfoRules(self, c, space, calls) ==
    IF c = TAB /\ space.some
    THEN InsertAndReturn(self, c, TabGlyphInfo(space.v), calls)
    ELSE IF c = THIN_SPACE /\ space.some
    THEN InsertAndReturn(self, c, ThinSpaceGlyphInfo(self, space.v), calls)
    ELSE IF invisible_char(c)
    THEN InsertAndReturn(self, c, GlyphInfo_default, calls)
    ELSE Let(FontLookup(self, c),
             LAMBDA r : IF ~r.some THEN [ret |-> None, self |-> self, calls |-> calls]
                        ELSE InsertAndReturn(self, c, r.v, calls))

\* FontImpl::glyph_info(&mut self, c): the result, the face afterwards and
\* the number of invocations of glyph_info (this one and the recursive one)
RECURSIVE FontImpl_glyph_info(_, _)
FontImpl_glyph_info(self, c) ==
    IF c \in DOMAIN self.glyph_info_cache
    THEN [ret |-> Some(self.glyph_info_cache[c]), self |-> self, calls |-> 1]
    ELSE IF ignore_character(self, c)
    THEN [ret |-> None, self |-> self, calls |-> 1]
    ELSE Let(IF c = TAB \/ c = THIN_SPACE
             THEN FontImpl_glyph_info(self, SPACE)
             ELSE [ret |-> None, self |-> self, calls |-> 0],
             LAMBDA sp : GlyphInfoRules(sp.self, c, sp.ret, 1 + sp.calls))

\* the rounded physical pixel scale allocate_glyph rasterizes at and keys by
AllocScale(self, font_size, pixels_per_point) ==
    R(RoundI(pt_scale_factor(self.ab_glyph_font,
                             RMul(RMul(font_size, self.tweak.scale), pixels_per_point))))

\* "Tweak the scale as the user desired"
y_offset_in_points(self, scale, font_size, pixels_per_point) ==
    Let(<<round_ui(RAdd(RMul(RDiv(scale, pixels_per_point), self.tweak.y_offset_factor),
                        self.tweak.y_offset)),
          RAdd(round_ui(RDiv(pt_scaled_ascent(self.ab_glyph_font,
                                              RMul(font_size, pixels_per_point)),
                             pixels_per_point)),
               round_ui(RDiv(pt_scaled_descent(self.ab_glyph_font,
                                               RMul(font_size, pixels_per_point)),
                             pixels_per_point)))>>,
        LAMBDA p : \* p[1]: y_offset_points, p[2]: height
            RDiv(R(RoundI(RMul(RSub(p[1],
                                    RMul(RMul(RSub(R(1), self.tweak.scale), Rat(1, 2)), p[2])),
                               pixels_per_point))),
                 pixels_per_point))

\* the UvRect of an outline with a non-empty pixel bounding box bb, placed
\* by the atlas at glyph_pos
PlacedUvRect(self, bb, glyph_width, glyph_height, glyph_pos, scale, font_size, pixels_per_point) ==
    [offset |-> <<RDiv(R(bb.min_x), pixels_per_point),
                  RAdd(RDiv(R(bb.min_y), pixels_per_point),
                       y_offset_in_points(self, scale, font_size, pixels_per_point))>>,
     size |-> <<RDiv(R(glyph_width), pixels_per_point),
                RDiv(R(glyph_height), pixels_per_point)>>,
     min |-> <<AsU16(glyph_pos[1]), AsU16(glyph_pos[2])>>,
     max |-> <<AsU16(glyph_pos[1] + glyph_width), AsU16(glyph_pos[2] + glyph_height)>>]

\* the closure without the empty-box test: every outlined glyph takes an
\* atlas region
OutlinedUvRect_always_place(self, bb, scale, atlas, font_size, pixels_per_point) ==
    Let(<<AsUsize(bb.max_x - bb.min_x), AsUsize(bb.max_y - bb.min_y)>>,
        LAMBDA wh :
            Let(TextureAtlas_allocate(atlas, wh[1], wh[2]),
                LAMBDA a : [uv_rect |-> PlacedUvRect(self, bb, wh[1], wh[2], a.pos, scale,
                                                     font_size, pixels_per_point),
                            atlas |-> a.atlas]))

\* the closure mapped over outline_glyph's result
OutlinedUvRect(self, bb, scale, atlas, font_size, pixels_per_point) ==
    Let(<<AsUsize(bb.max_x - bb.min_x), AsUsize(bb.max_y - bb.min_y)>>,
        LAMBDA wh : \* glyph_width, glyph_height
            IF wh[1] = 0 \/ wh[2] = 0
            THEN [uv_rect |-> UvRect_default, atlas |-> atlas]
            ELSE Let(TextureAtlas_allocate(atlas, wh[1], wh[2]),
                     LAMBDA a : [uv_rect |-> PlacedUvRect(self, bb, wh[1], wh[2], a.pos, scale,
                                                          font_size, pixels_per_point),
                                 atlas |-> a.atlas]))

\* outline_glyph(glyph).map(..).unwrap_or_default(): the UvRect and the
\* atlas afterwards
RasterizeUvRect(self, glyph_info, scale, atlas, font_size, pixels_per_point) ==
    Let(outline_glyph(self.ab_glyph_font, glyph_info.id, scale),
        LAMBDA og : IF ~og.some THEN [uv_rect |-> UvRect_default, atlas |-> atlas]
                    ELSE OutlinedUvRect(self, og.v, scale, atlas, font_size, pixels_per_point))

\* a raster cache looked up by glyph id and scale alone
AllocCacheLookup_by_id(self, key) ==
    IF \E k \in DOMAIN self.glyph_alloc_cache : k[1].id = key[1].id /\ k[2] = key[2]
    THEN Some(self.glyph_alloc_cache[
                 CHOOSE k \in DOMAIN self.glyph_alloc_cache :
                     k[1].id = key[1].id /\ k[2] = key[2]])
    ELSE None

\* a raster cache that never holds the key
AllocCacheLookup_vacant(self, key) == None

\* self.glyph_alloc_cache.entry(key): Some(allocation) when Occupied
AllocCacheLookup(self, key) ==
    IF key \in DOMAIN self.glyph_alloc_cache THEN Some(self.glyph_alloc_cache[key])
    ELSE None

\* the advance width of the allocation, in points
AllocAdvanceWidth(self, glyph_info, scale, pixels_per_point) ==
    RDiv(RDiv(RMul(glyph_info.advance_width_unscaled, scale),
              height_unscaled(self.ab_glyph_font)),
         pixels_per_point)

\* allocate_glyph on a cache miss, after the assertion: rasterize, insert
\* and return
AllocMiss(self, glyph_info, scale, atlas, font_size, pixels_per_point) ==
    Let(RasterizeUvRect(self, glyph_info, scale, atlas, font_size, pixels_per_point),
        LAMBDA r :
            Let([id |-> glyph_info.id,
                 advance_width |-> AllocAdvanceWidth(self, glyph_info, scale, pixels_per_point),
                 uv_rect |-> r.uv_rect],
                LAMBDA allocation :
                    [panic |-> NoPanic, ret |-> allocation,
                     self |-> [self EXCEPT !.glyph_alloc_cache =
                                  MapInsert(self.glyph_alloc_cache, <<glyph_info, scale>>,
                                            allocation)],
                     atlas |-> r.atlas]))

\* FontImpl::allocate_glyph(&mut self, glyph_info, atlas, font_size,
\* pixels_per_point): the panic message ("" when it returns), the returned
\* allocation, the face and the atlas afterwards
FontImpl_allocate_glyph(self, glyph_info, atlas, font_size, pixels_per_point) ==
    IF ~glyph_info.visible
    THEN [panic |-> NoPanic, ret |-> GlyphAllocation_default, self |-> self, atlas |-> atlas]
    ELSE IF pt_scale_factor_panics(self.ab_glyph_font)
    THEN [panic |-> PANIC_UNITS, ret |-> GlyphAllocation_default, self |-> self, atlas |-> atlas]
    ELSE Let(AllocScale(self, font_size, pixels_per_point),
             LAMBDA scale :
                 Let(AllocCacheLookup(self, <<glyph_info, scale>>),
                     LAMBDA entry :
                         IF entry.some
                         THEN [panic |-> NoPanic, ret |-> entry.v,
                               self |-> self, atlas |-> atlas]
                         ELSE IF glyph_info.id = 0
                         THEN [panic |-> PANIC_ID0, ret |-> GlyphAllocation_default,
                               self |-> self, atlas |-> atlas]
                         ELSE AllocMiss(self, glyph_info, scale, atlas, font_size,
                                        pixels_per_point)))

\* FontImpl::row_height(&self, font_size) -> f32
FontImpl_row_height(self, font_size) ==
    RAdd(RSub(round_ui(pt_scaled_ascent(self.ab_glyph_font, font_size)),
              round_ui(pt_scaled_descent(self.ab_glyph_font, font_size))),
         round_ui(pt_scaled_line_gap(self.ab_glyph_font, font_size)))

\* FontImpl::ascent(&self, font_size) -> f32
FontImpl_ascent(self, font_size) == round_ui(pt_scaled_ascent(self.ab_glyph_font, font_size))

\* the scale pair_kerning hands to the font: pt_scaled of the rounded
\* (font_size * tweak.scale * pixels_per_point)
KernScale(self, font_size, pixels_per_point) ==
    pt_scale_factor(self.ab_glyph_font,
                    R(RoundI(RMul(RMul(font_size, self.tweak.scale), pixels_per_point))))

\* FontImpl::pair_kerning(&self, last_glyph_id, glyph_id, font_size,
\* pixels_per_point) -> f32: PxScaleFont::kern is the unscaled kerning times
\* scale.x / height_unscaled
FontImpl_pair_kerning(self, last_glyph_id, glyph_id0, font_size, pixels_per_point) ==
    IF pt_scale_factor_panics(self.ab_glyph_font)
    THEN [panic |-> PANIC_UNITS, ret |-> R(0)]
    ELSE [panic |-> NoPanic,
          ret |-> RDiv(RMul(kern_unscaled(self.ab_glyph_font, last_glyph_id, glyph_id0),
                            RDiv(KernScale(self, font_size, pixels_per_point),
                                 height_unscaled(self.ab_glyph_font))),
                       pixels_per_point)]

(***************************************************************************)
(* CachedFamily (text/fonts.rs): the family record the facade borrows.     *)
(***************************************************************************)
\* glyph_info_no_cache_or_fallback(c, fonts_by_id): the faces are tried in
\* family order until one resolves c.  `consulted` lists the faces whose
\* glyph_info was invoked, `calls` counts the invocations of
\* FontImpl::glyph_info.
RECURSIVE TryFaces(_, _, _, _, _)
TryFaces(keys, c, fonts, consulted, calls) ==
    IF keys = <<>>
    THEN [panic |-> NoPanic, ret |-> None, fonts_by_id |-> fonts,
          consulted |-> consulted, calls |-> calls]
    ELSE IF Head(keys) \notin DOMAIN fonts
    THEN [panic |-> PANIC_FONT_ID, ret |-> None, fonts_by_id |-> fonts,
          consulted |-> consulted, calls |-> calls]
    ELSE Let(FontImpl_glyph_info(fonts[Head(keys)], c),
             LAMBDA r :
                 IF r.ret.some
                 THEN [panic |-> NoPanic, ret |-> Some(<<Head(keys), r.ret.v>>),
                       fonts_by_id |-> [fonts EXCEPT ![Head(keys)] = r.self],
                       consulted |-> Append(consulted, Head(keys)),
                       calls |-> calls + r.calls]
                 ELSE TryFaces(Tail(keys), c, [fonts EXCEPT ![Head(keys)] = r.self],
                               Append(consulted, Head(keys)), calls + r.calls))

glyph_info_no_cache_or_fallback(cached_fonts, c, fonts) ==
    TryFaces(cached_fonts, c, fonts, <<>>, 0)

\* CachedFamily::new: the replacement glyph is the resolution of the
\* designated replacement character, or the default pair when no face
\* resolves it
CachedFamily_new(fonts, registry) ==
    Let(glyph_info_no_cache_or_fallback(fonts, REPLACEMENT_CHAR, registry),
        LAMBDA r :
            [fonts_by_id |-> r.fonts_by_id,
             cached_family |->
               [fonts |-> fonts,
                replacement_glyph |-> IF r.ret.some THEN r.ret.v
                                      ELSE <<INVALID_KEY, GlyphInfo_default>>,
                glyph_info_cache |-> EmptyMap,
                characters |-> None]])

(***************************************************************************)
(* The state.                                                              *)
(***************************************************************************)
VARIABLES
    fonts_by_id,    \* the face registry: FontFaceKey -> FontImpl
    cached_family,  \* the family record
    atlas,          \* the shared texture atlas
    panic,          \* "" or the message of the panic that ended the program
    last,           \* the last operation: its name, arguments and result
    returned,       \* <<key, identity, scale>> -> the allocation first returned
    steps           \* number of operations performed

vars == <<fonts_by_id, cached_family, atlas, panic, last, returned, steps>>

\* the borrowed state a facade call works on
Ctx == [fonts_by_id |-> fonts_by_id, cached_family |-> cached_family, atlas |-> atlas,
        panic |-> NoPanic, consulted |-> <<>>, calls |-> 0]

(***************************************************************************)
(* Font: the facade.  Each operator maps the borrowed state to the state   *)
(* afterwards and the returned value.                                      *)
(***************************************************************************)
\* a miss of the family cache that files the identity under the first face
\* of the family, whichever face resolved it
FamilyCacheMiss_first_key(ctx, c) ==
    Let(glyph_info_no_cache_or_fallback(ctx.cached_family.fonts, c, ctx.fonts_by_id),
        LAMBDA r :
            IF r.panic # NoPanic
            THEN [ctx |-> [ctx EXCEPT !.fonts_by_id = r.fonts_by_id,
                                      !.consulted = ctx.consulted \o r.consulted,
                                      !.calls = ctx.calls + r.calls,
                                      !.panic = r.panic],
                  ret |-> <<INVALID_KEY, GlyphInfo_default>>]
            ELSE Let(IF r.ret.some THEN <<Head(ctx.cached_family.fonts), r.ret.v[2]>>
                     ELSE ctx.cached_family.replacement_glyph,
                     LAMBDA font_index_glyph_info :
                         [ctx |-> [ctx EXCEPT !.fonts_by_id = r.fonts_by_id,
                                              !.consulted = ctx.consulted \o r.consulted,
                                              !.calls = ctx.calls + r.calls,
                                              !.cached_family.glyph_info_cache =
                                                  MapInsert(ctx.cached_family.glyph_info_cache,
                                                            c, font_index_glyph_info)],
                          ret |-> font_index_glyph_info]))

\* a miss of the family cache that caches the replacement glyph whatever
\* the faces resolve
FamilyCacheMiss_replacement(ctx, c) ==
    Let(glyph_info_no_cache_or_fallback(ctx.cached_family.fonts, c, ctx.fonts_by_id),
        LAMBDA r :
            [ctx |-> [ctx EXCEPT !.fonts_by_id = r.fonts_by_id,
                                 !.consulted = ctx.consulted \o r.consulted,
                                 !.calls = ctx.calls + r.calls,
                                 !.cached_family.glyph_info_cache =
                                     MapInsert(ctx.cached_family.glyph_info_cache, c,
                                               ctx.cached_family.replacement_glyph)],
             ret |-> ctx.cached_family.replacement_glyph])

\* Font::glyph_info on a miss of the family cache
FamilyCacheMiss(ctx, c) ==
    Let(glyph_info_no_cache_or_fallback(ctx.cached_family.fonts, c, ctx.fonts_by_id),
        LAMBDA r :
            IF r.panic # NoPanic
            THEN [ctx |-> [ctx EXCEPT !.fonts_by_id = r.fonts_by_id,
                                      !.consulted = ctx.consulted \o r.consulted,
                                      !.calls = ctx.calls + r.calls,
                                      !.panic = r.panic],
                  ret |-> <<INVALID_KEY, GlyphInfo_default>>]
            ELSE Let(IF r.ret.some THEN r.ret.v ELSE ctx.cached_family.replacement_glyph,
                     LAMBDA font_index_glyph_info :
                         [ctx |-> [ctx EXCEPT !.fonts_by_id = r.fonts_by_id,
                                              !.consulted = ctx.consulted \o r.consulted,
                                              !.calls = ctx.calls + r.calls,
                                              !.cached_family.glyph_info_cache =
                                                  MapInsert(ctx.cached_family.glyph_info_cache,
                                                            c, font_index_glyph_info)],
                          ret |-> font_index_glyph_info]))

\* glyph_info without the family cache
Font_glyph_info_uncached(ctx, c) ==
    IF ctx.panic # NoPanic THEN [ctx |-> ctx, ret |-> <<INVALID_KEY, GlyphInfo_default>>]
    ELSE FamilyCacheMiss(ctx, c)

\* Font::glyph_info(&mut self, c) -> (FontFaceKey, GlyphInfo)
Font_glyph_info(ctx, c) ==
    IF ctx.panic # NoPanic THEN [ctx |-> ctx, ret |-> <<INVALID_KEY, GlyphInfo_default>>]
    ELSE IF c \in DOMAIN ctx.cached_family.glyph_info_cache
    THEN [ctx |-> ctx, ret |-> ctx.cached_family.glyph_info_cache[c]]
    ELSE FamilyCacheMiss(ctx, c)

\* for c in s[lo..hi] { self.glyph_info(c); }: the characters are resolved
\* in order, the range being split in halves to keep the evaluation shallow
RECURSIVE PreloadRange(_, _, _, _)
PreloadRange(ctx, s, lo, hi) ==
    IF lo > hi \/ ctx.panic # NoPanic THEN ctx
    ELSE IF lo = hi THEN Font_glyph_info(ctx, s[lo]).ctx
    ELSE Let(PreloadRange(ctx, s, lo, (lo + hi) \div 2),
             LAMBDA half : PreloadRange(half, s, (lo + hi) \div 2 + 1, hi))

\* Font::preload_characters(&mut self, s)
Font_preload_characters(ctx, s) == PreloadRange(ctx, s, 1, Len(s))

\* the characters preload_common_characters resolves, in order
CommonCharacters ==
    [i \in 1..(LAST_ASCII - FIRST_ASCII + 1) |-> FIRST_ASCII + i - 1]
        \o <<DEGREE, PASSWORD_REPLACEMENT_CHAR>>

\* Font::preload_common_characters(&mut self)
Font_preload_common_characters(ctx) == Font_preload_characters(ctx, CommonCharacters)

\* has_glyph that takes every identity with a non-zero glyph id for a glyph
Font_has_glyph_by_id(ctx, c) ==
    Let(Font_glyph_info(ctx, c),
        LAMBDA r : [ctx |-> r.ctx, ret |-> r.ret[2].id # 0])

\* Font::has_glyph(&mut self, c) -> bool
Font_has_glyph(ctx, c) ==
    Let(Font_glyph_info(ctx, c),
        LAMBDA r : [ctx |-> r.ctx, ret |-> r.ret # r.ctx.cached_family.replacement_glyph])

\* Font::has_glyphs(&mut self, s) -> bool: Iterator::all stops at the first
\* character without glyph
RECURSIVE Font_has_glyphs(_, _)
Font_has_glyphs(ctx, s) ==
    IF s = <<>> \/ ctx.panic # NoPanic THEN [ctx |-> ctx, ret |-> TRUE]
    ELSE Let(Font_has_glyph(ctx, Head(s)),
             LAMBDA r : IF ~r.ret THEN r ELSE Font_has_glyphs(r.ctx, Tail(s)))

\* the advance read off an allocation of the glyph at 1 pixel per point
GlyphWidthOn_rasterized(ctx, key, glyph_info, font_size) ==
    IF key \notin DOMAIN ctx.fonts_by_id
    THEN [ctx |-> [ctx EXCEPT !.panic = PANIC_FONT_ID], ret |-> R(0)]
    ELSE Let(FontImpl_allocate_glyph(ctx.fonts_by_id[key], glyph_info, ctx.atlas,
                                     font_size, R(1)),
             LAMBDA a : [ctx |-> [ctx EXCEPT !.fonts_by_id[key] = a.self,
                                             !.atlas = a.atlas,
                                             !.panic = a.panic],
                         ret |-> a.ret.advance_width])

\* the advance of glyph_info at font_size on the face `key`
GlyphWidthOn(ctx, key, glyph_info, font_size) ==
    IF key \notin DOMAIN ctx.fonts_by_id
    THEN [ctx |-> [ctx EXCEPT !.panic = PANIC_FONT_ID], ret |-> R(0)]
    ELSE IF pt_scale_factor_panics(ctx.fonts_by_id[key].ab_glyph_font)
    THEN [ctx |-> [ctx EXCEPT !.panic = PANIC_UNITS], ret |-> R(0)]
    ELSE [ctx |-> ctx,
          ret |-> RDiv(RMul(glyph_info.advance_width_unscaled,
                            pt_scale_factor(ctx.fonts_by_id[key].ab_glyph_font, font_size)),
                       height_unscaled(ctx.fonts_by_id[key].ab_glyph_font))]

\* Font::glyph_width(&mut self, c, font_size) -> f32
Font_glyph_width(ctx, c, font_size) ==
    Let(Font_glyph_info(ctx, c),
        LAMBDA r : IF r.ctx.panic # NoPanic THEN [ctx |-> r.ctx, ret |-> R(0)]
                   ELSE GlyphWidthOn(r.ctx, r.ret[1], r.ret[2], font_size))

\* Font::font_impl_and_glyph_info(&mut self, c) -> (Option<&mut FontImpl>, GlyphInfo);
\* the face is returned as its key
Font_font_impl_and_glyph_info(ctx, c) ==
    IF ctx.cached_family.fonts = <<>>
    THEN [ctx |-> ctx, ret |-> <<None, ctx.cached_family.replacement_glyph[2]>>]
    ELSE Let(Font_glyph_info(ctx, c),
             LAMBDA r :
                 IF r.ctx.panic # NoPanic
                 THEN [ctx |-> r.ctx, ret |-> <<None, GlyphInfo_default>>]
                 ELSE IF r.ret[1] \notin DOMAIN r.ctx.fonts_by_id
                 THEN [ctx |-> [r.ctx EXCEPT !.panic = PANIC_FONT_ID],
                       ret |-> <<None, GlyphInfo_default>>]
                 ELSE [ctx |-> r.ctx, ret |-> <<Some(r.ret[1]), r.ret[2]>>])

\* font_impl.allocate_glyph(glyph_info, self.atlas, font_size, pixels_per_point)
\* on the face `key`; `alloc` records the face and the identity passed
AllocOn(ctx, key, glyph_info, font_size, pixels_per_point) ==
    Let(FontImpl_allocate_glyph(ctx.fonts_by_id[key], glyph_info, ctx.atlas,
                                font_size, pixels_per_point),
        LAMBDA a : [ctx |-> [ctx EXCEPT !.fonts_by_id[key] = a.self,
                                        !.atlas = a.atlas,
                                        !.panic = a.panic],
                    ret |-> <<Some(key), a.ret>>,
                    alloc |-> Some([key |-> key, glyph_info |-> glyph_info])])

\* Font::font_impl_and_glyph_alloc(&mut self, c, font_size, pixels_per_point)
\*   -> (Option<&FontImpl>, GlyphAllocation); the face is returned as its key
Font_font_impl_and_glyph_alloc(ctx, c, font_size, pixels_per_point) ==
    IF ctx.cached_family.fonts = <<>>
    THEN [ctx |-> ctx, ret |-> <<None, GlyphAllocation_default>>, alloc |-> None]
    ELSE Let(Font_glyph_info(ctx, c),
             LAMBDA r :
                 IF r.ctx.panic # NoPanic
                 THEN [ctx |-> r.ctx, ret |-> <<None, GlyphAllocation_default>>,
                       alloc |-> None]
                 ELSE IF r.ret[1] \notin DOMAIN r.ctx.fonts_by_id
                 THEN [ctx |-> [r.ctx EXCEPT !.panic = PANIC_FONT_ID],
                       ret |-> <<None, GlyphAllocation_default>>, alloc |-> None]
                 ELSE AllocOn(r.ctx, r.ret[1], r.ret[2], font_size, pixels_per_point))

\* Font::row_height(&self, font_size) -> f32
Font_row_height(ctx, font_size) ==
    IF ctx.cached_family.fonts = <<>>
       \/ Head(ctx.cached_family.fonts) \notin DOMAIN ctx.fonts_by_id
    THEN [ctx |-> ctx, ret |-> R(0)]
    ELSE IF pt_scale_factor_panics(ctx.fonts_by_id[Head(ctx.cached_family.fonts)].ab_glyph_font)
    THEN [ctx |-> [ctx EXCEPT !.panic = PANIC_UNITS], ret |-> R(0)]
    ELSE [ctx |-> ctx,
          ret |-> FontImpl_row_height(ctx.fonts_by_id[Head(ctx.cached_family.fonts)],
                                      font_size)]

\* Font::ascent(&self, font_size) -> f32
Font_ascent(ctx, font_size) ==
    IF ctx.cached_family.fonts = <<>> THEN Font_row_height(ctx, font_size)
    ELSE IF Head(ctx.cached_family.fonts) \notin DOMAIN ctx.fonts_by_id
    THEN [ctx |-> [ctx EXCEPT !.panic = PANIC_FONT_ID], ret |-> R(0)]
    ELSE IF pt_scale_factor_panics(ctx.fonts_by_id[Head(ctx.cached_family.fonts)].ab_glyph_font)
    THEN [ctx |-> [ctx EXCEPT !.panic = PANIC_UNITS], ret |-> R(0)]
    ELSE [ctx |-> ctx,
          ret |-> FontImpl_ascent(ctx.fonts_by_id[Head(ctx.cached_family.fonts)], font_size)]

\* characters.entry(chr).or_default().push(font.name) for every chr of chrs
PushName(characters, chrs, name) ==
    [chr \in DOMAIN characters \cup chrs |->
        IF chr \notin chrs THEN characters[chr]
        ELSE IF chr \in DOMAIN characters THEN Append(characters[chr], name)
        ELSE <<name>>]

\* the closure of Font::characters: every character any face of the family
\* supports, with the names of the faces that support it, in family order
RECURSIVE BuildCharacters(_, _, _)
BuildCharacters(keys, fonts, characters) ==
    IF keys = <<>> THEN [panic |-> NoPanic, characters |-> characters]
    ELSE IF Head(keys) \notin DOMAIN fonts
    THEN [panic |-> PANIC_FONT_ID, characters |-> characters]
    ELSE Let(PushName(characters, FontImpl_characters(fonts[Head(keys)]),
                      fonts[Head(keys)].name),
             LAMBDA next : BuildCharacters(Tail(keys), fonts, next))

\* Font::characters(&mut self) -> &BTreeMap<char, Vec<String>>
Font_characters(ctx) ==
    IF ctx.cached_family.characters.some
    THEN [ctx |-> ctx, ret |-> ctx.cached_family.characters.v]
    ELSE Let(BuildCharacters(ctx.cached_family.fonts, ctx.fonts_by_id, EmptyMap),
             LAMBDA b :
                 IF b.panic # NoPanic
                 THEN [ctx |-> [ctx EXCEPT !.panic = b.panic], ret |-> EmptyMap]
                 ELSE [ctx |-> [ctx EXCEPT !.cached_family.characters = Some(b.characters)],
                       ret |-> b.characters])

(***************************************************************************)
(* Inputs of the operations.                                               *)
(***************************************************************************)
\* tab, line feed (no font maps it), carriage return, 'a', thin space, the
\* replacement character, a denylisted character
InputChars == {TAB, 10, CR, 97, THIN_SPACE, REPLACEMENT_CHAR, 21325}

\* CR, U+200B and U+FEFF are zero-width format characters
InputStrings == {<<SPACE, 97, TAB>>, <<CR, 8203, 65279, 21325, 10, THIN_SPACE>>}

\* the font size of the metrics queries
FontSizes == {R(12)}
\* (font size, pixels per point): 16 pt at 1 px/pt and 8 pt at 2 px/pt give
\* the same pixel scale
RenderSettings == {<<R(16), R(1)>>, <<R(8), R(2)>>, <<R(16), R(2)>>}

\* FontTweak::default() and a tweak that shrinks and shifts the face
TweakDefault == [scale |-> R(1), y_offset_factor |-> R(0), y_offset |-> R(0)]
TweakSmall == [scale |-> Rat(3, 4), y_offset_factor |-> Rat(1, 10), y_offset |-> Rat(-1, 2)]

\* the face registries: two faces each, under the keys 1 and 2; "custom" is
\* not a built-in font name
Registries ==
    { (1 :> FontImpl_new("custom", "A", TweakDefault))
        @@ (2 :> FontImpl_new("NotoEmoji-Regular", "B", TweakSmall)),
      (1 :> FontImpl_new("Hack", "C", TweakDefault))
        @@ (2 :> FontImpl_new("emoji-icon-font", "D", TweakSmall)) }

\* the family's ordered list of face keys; no registry holds a face under
\* the key 3
FamilyFonts == {<<>>, <<1, 2>>, <<2, 1>>, <<3>>}

NoLast == [op |-> "new", args |-> <<>>, ret |-> <<>>, hit |-> FALSE, consulted |-> <<>>,
           calls |-> 0, alloc |-> None]

Init ==
    \E registry \in Registries, fonts \in FamilyFonts :
        \E n \in {CachedFamily_new(fonts, registry)} :
            /\ fonts_by_id = n.fonts_by_id
            /\ cached_family = n.cached_family
            /\ atlas = TextureAtlas_new
            /\ panic = NoPanic
            /\ last = NoLast
            /\ returned = EmptyMap
            /\ steps = 0

(***************************************************************************)
(* The operations as steps of the program.                                 *)
(***************************************************************************)
CanStep == panic = NoPanic /\ steps < MaxSteps

\* what a step records of the allocate_glyph call it made: the face, the
\* identity, the rounded pixel scale, whether an earlier call with the same
\* (face, identity, scale) has returned, the atlas count before the call
AllocRecord(key, glyph_info, font_size, pixels_per_point, ret) ==
    Let(IF pt_scale_factor_panics(fonts_by_id[key].ab_glyph_font) THEN R(0)
        ELSE AllocScale(fonts_by_id[key], font_size, pixels_per_point),
        LAMBDA scale :
            [key |-> key, glyph_info |-> glyph_info, scale |-> scale,
             font_size |-> font_size, pixels_per_point |-> pixels_per_point,
             repeat |-> <<key, glyph_info, scale>> \in DOMAIN returned,
             allocs_before |-> atlas.allocs,
             ret |-> ret])

\* the first allocation returned for each (face, visible identity, scale)
Returned(alloc, p) ==
    IF alloc.some /\ p = NoPanic /\ alloc.v.glyph_info.visible
       /\ <<alloc.v.key, alloc.v.glyph_info, alloc.v.scale>> \notin DOMAIN returned
    THEN MapInsert(returned, <<alloc.v.key, alloc.v.glyph_info, alloc.v.scale>>, alloc.v.ret)
    ELSE returned

\* the facade operations that look up the one character they are given
LookupOps == {"glyph_width", "has_glyph", "font_impl_and_glyph_info",
              "font_impl_and_glyph_alloc"}

\* a step of operation `op` that leaves the borrowed state as r.ctx; `hit`
\* records whether the family cache held the character before the call,
\* `consulted` the faces whose glyph_info the call invoked, `calls` the
\* number of invocations of FontImpl::glyph_info
Step(op, args, r, alloc) ==
    /\ fonts_by_id' = r.ctx.fonts_by_id
    /\ cached_family' = r.ctx.cached_family
    /\ atlas' = r.ctx.atlas
    /\ panic' = r.ctx.panic
    /\ last' = [op |-> op, args |-> args, ret |-> r.ret,
                hit |-> op \in LookupOps
                        /\ args[1] \in DOMAIN cached_family.glyph_info_cache,
                consulted |-> r.ctx.consulted, calls |-> r.ctx.calls, alloc |-> alloc]
    /\ returned' = Returned(alloc, r.ctx.panic)
    /\ steps' = steps + 1

Call_preload_characters ==
    /\ CanStep
    /\ \E s \in InputStrings :
           \E ctx \in {Font_preload_characters(Ctx, s)} :
               Step("preload_characters", <<s>>, [ctx |-> ctx, ret |-> <<>>], None)

Call_preload_common_characters ==
    /\ CanStep
    /\ \E ctx \in {Font_preload_common_characters(Ctx)} :
           Step("preload_common_characters", <<>>, [ctx |-> ctx, ret |-> <<>>], None)

Call_characters ==
    /\ CanStep
    /\ \E r \in {Font_characters(Ctx)} : Step("characters", <<>>, r, None)

Call_row_height ==
    /\ CanStep
    /\ \E font_size \in FontSizes :
           \E r \in {Font_row_height(Ctx, font_size)} :
               Step("row_height", <<font_size>>, r, None)

Call_ascent ==
    /\ CanStep
    /\ \E font_size \in FontSizes :
           \E r \in {Font_ascent(Ctx, font_size)} :
               Step("ascent", <<font_size>>, r, None)

Call_glyph_width ==
    /\ CanStep
    /\ \E c \in InputChars, font_size \in FontSizes :
           \E r \in {Font_glyph_width(Ctx, c, font_size)} :
               Step("glyph_width", <<c, font_size>>, r, None)

Call_has_glyph ==
    /\ CanStep
    /\ \E c \in InputChars :
           \E r \in {Font_has_glyph(Ctx, c)} : Step("has_glyph", <<c>>, r, None)

Call_has_glyphs ==
    /\ CanStep
    /\ \E s \in InputStrings :
           \E r \in {Font_has_glyphs(Ctx, s)} : Step("has_glyphs", <<s>>, r, None)

Call_font_impl_and_glyph_info ==
    /\ CanStep
    /\ \E c \in InputChars :
           \E r \in {Font_font_impl_and_glyph_info(Ctx, c)} :
               Step("font_impl_and_glyph_info", <<c>>, r, None)

Call_font_impl_and_glyph_alloc ==
    /\ CanStep
    /\ \E c \in InputChars, rs \in RenderSettings :
           \E r \in {Font_font_impl_and_glyph_alloc(Ctx, c, rs[1], rs[2])} :
               \E alloc \in {IF r.alloc.some
                             THEN Some(AllocRecord(r.alloc.v.key, r.alloc.v.glyph_info,
                                                   rs[1], rs[2], r.ret[2]))
                             ELSE None} :
                   Step("font_impl_and_glyph_alloc", <<c, rs[1], rs[2]>>,
                        [ctx |-> r.ctx, ret |-> r.ret], alloc)

\* FontImpl::glyph_info called on a face of the registry directly
Call_FontImpl_glyph_info ==
    /\ CanStep
    /\ \E key \in DOMAIN fonts_by_id, c \in InputChars :
           \E r \in {FontImpl_glyph_info(fonts_by_id[key], c)} :
               Step("FontImpl::glyph_info", <<key, c>>,
                    [ctx |-> [Ctx EXCEPT !.fonts_by_id[key] = r.self,
                                         !.consulted = <<key>>, !.calls = r.calls],
                     ret |-> r.ret],
                    None)

\* the characters whose identities are passed to FontImpl::allocate_glyph:
\* the input characters, the space and '|' (whose outline in font A has a
\* box of width zero)
AllocChars == InputChars \cup {SPACE, 124}

\* the identities a caller can pass to FontImpl::allocate_glyph: those the
\* face has resolved for the characters above, the default identity, and a
\* visible identity with id 0
InputIdentities(key) ==
    {fonts_by_id[key].glyph_info_cache[c] :
        c \in AllocChars \cap DOMAIN fonts_by_id[key].glyph_info_cache}
        \cup {GlyphInfo_default, GlyphInfo(0, R(0), TRUE)}

\* FontImpl::allocate_glyph called on a face of the registry directly
Call_FontImpl_allocate_glyph ==
    /\ CanStep
    /\ \E key \in DOMAIN fonts_by_id, rs \in RenderSettings :
           \E glyph_info \in InputIdentities(key) :
               \E a \in {FontImpl_allocate_glyph(fonts_by_id[key], glyph_info, atlas,
                                                 rs[1], rs[2])} :
                   \E alloc \in {Some(AllocRecord(key, glyph_info, rs[1], rs[2], a.ret))} :
                       Step("FontImpl::allocate_glyph", <<key, glyph_info, rs[1], rs[2]>>,
                            [ctx |-> [Ctx EXCEPT !.fonts_by_id[key] = a.self,
                                                 !.atlas = a.atlas, !.panic = a.panic],
                             ret |-> a.ret],
                            alloc)

\* FontImpl::pair_kerning called on a face of the registry for the pair
\* ('a', 'a')
Call_FontImpl_pair_kerning ==
    /\ CanStep
    /\ \E key \in DOMAIN fonts_by_id, rs \in RenderSettings :
           \E id \in {glyph_id(fonts_by_id[key].ab_glyph_font, 97)} :
               \E k \in {FontImpl_pair_kerning(fonts_by_id[key], id, id, rs[1], rs[2])} :
                   Step("FontImpl::pair_kerning", <<key, id, id, rs[1], rs[2]>>,
                        [ctx |-> [Ctx EXCEPT !.panic = k.panic], ret |-> k.ret],
                        None)

\* the operations of the facade
NextFacade ==
    \/ Call_preload_characters
    \/ Call_preload_common_characters
    \/ Call_characters
    \/ Call_row_height
    \/ Call_ascent
    \/ Call_glyph_width
    \/ Call_has_glyph
    \/ Call_has_glyphs
    \/ Call_font_impl_and_glyph_info
    \/ Call_font_impl_and_glyph_alloc

Next ==
    \/ NextFacade
    \/ Call_FontImpl_glyph_info
    \/ Call_FontImpl_allocate_glyph
    \/ Call_FontImpl_pair_kerning

\* the faces and the facade used in any order
Spec == Init /\ [][Next]_vars

\* the facade alone
SpecFacade == Init /\ [][NextFacade]_vars

\* The atlas is shared and owned outside: a face can be handed one whose
\* earlier users have filled it down to a row just below 2^16.
TextureAtlas_filled == [cursor |-> <<0, 65530>>, row_height |-> 0, allocs |-> 0]

InitAtlas ==
    \E registry \in Registries, fonts \in FamilyFonts :
        \E n \in {CachedFamily_new(fonts, registry)} :
            /\ fonts_by_id = n.fonts_by_id
            /\ cached_family = n.cached_family
            /\ atlas = TextureAtlas_filled
            /\ panic = NoPanic
            /\ last = NoLast
            /\ returned = EmptyMap
            /\ steps = 0

\* the faces and the facade over an atlas that is nearly 2^16 rows deep
SpecAtlas == InitAtlas /\ [][Next]_vars

(***************************************************************************)
(* Properties.                                                             *)
(***************************************************************************)
\* every face key of the family is a key of the registry
FamilyRegistered ==
    \A i \in 1..Len(cached_family.fonts) : cached_family.fonts[i] \in DOMAIN fonts_by_id

\* the last operation called Font::glyph_info on its character last.args[1],
\* in a family whose faces are all in the registry
LookedUp ==
    /\ FamilyRegistered
    /\ \/ last.op \in {"glyph_width", "has_glyph"}
       \/ /\ last.op \in {"font_impl_and_glyph_info", "font_impl_and_glyph_alloc"}
          /\ cached_family.fonts # <<>>

\* the positions in the family of the faces whose own resolution of c is
\* not None
Resolving(c) ==
    {i \in 1..Len(cached_family.fonts) :
        FontImpl_glyph_info(fonts_by_id[cached_family.fonts[i]], c).ret.some}

\* the font of the face maps the space character; its unscaled advance
MapsSpace(self) == glyph_id(self.ab_glyph_font, SPACE) # 0
SpaceAdvance(self) ==
    h_advance_unscaled(self.ab_glyph_font, glyph_id(self.ab_glyph_font, SPACE))

\* C1: once allocate_glyph has returned an allocation A for a visible
\* identity g at the rounded pixel scale s on a face, every later call on
\* that face with the same (g, s) returns exactly A, and the atlas
\* allocation count does not grow on the repeat call.
C1_RepeatedAllocation ==
    (last.alloc.some /\ panic = NoPanic /\ last.alloc.v.glyph_info.visible) =>
        /\ <<last.alloc.v.key, last.alloc.v.glyph_info, last.alloc.v.scale>>
               \in DOMAIN returned
        /\ last.alloc.v.ret =
               returned[<<last.alloc.v.key, last.alloc.v.glyph_info, last.alloc.v.scale>>]
        /\ last.alloc.v.repeat => atlas.allocs = last.alloc.v.allocs_before

\* a repeat call for a rasterized glyph at another font size and pixel
\* density that round to the same pixel scale: the advance returned is the
\* first call's, not the one of this call's pixel density
C1_Witness ==
    /\ last.alloc.some /\ panic = NoPanic
    /\ last.alloc.v.glyph_info.visible
    /\ last.alloc.v.repeat
    /\ ~is_nothing(last.alloc.v.ret.uv_rect)
    /\ atlas.allocs = last.alloc.v.allocs_before
    /\ last.alloc.v.ret.advance_width #
           AllocAdvanceWidth(fonts_by_id[last.alloc.v.key], last.alloc.v.glyph_info,
                             last.alloc.v.scale, last.alloc.v.pixels_per_point)

\* C2: through the facade, the assertion id != 0 of allocate_glyph never
\* fails: every identity the facade hands to allocate_glyph is invisible or
\* has a non-zero glyph id.
C2_IdZeroNeverRasterized ==
    /\ panic # PANIC_ID0
    /\ last.alloc.some =>
           (~last.alloc.v.glyph_info.visible \/ last.alloc.v.glyph_info.id # 0)

\* the facade has handed an identity with glyph id 0 to allocate_glyph, which
\* returned the default allocation
C2_Witness ==
    /\ last.op = "font_impl_and_glyph_alloc"
    /\ last.alloc.some /\ panic = NoPanic
    /\ last.alloc.v.glyph_info.id = 0
    /\ last.alloc.v.ret = GlyphAllocation_default

\* the allocate_glyph call of the last operation was given an identity that
\* is not visible
AllocatedInvisible == last.alloc.some /\ ~last.alloc.v.glyph_info.visible

\* the face of the last allocate_glyph call, its raster cache holding a
\* foreign entry under the key of the call
PoisonedFace ==
    [fonts_by_id[last.alloc.v.key] EXCEPT !.glyph_alloc_cache =
        MapInsert(fonts_by_id[last.alloc.v.key].glyph_alloc_cache,
                  <<last.alloc.v.glyph_info, last.alloc.v.scale>>,
                  [id |-> 1, advance_width |-> R(1), uv_rect |-> UvRect_default])]

\* allocate_glyph of an identity that is not visible: the default
\* nothing-allocation is returned, the atlas is not called, and the call
\* neither writes the raster cache nor returns what the raster cache holds
NothingAllocated ==
    AllocatedInvisible =>
        /\ panic = NoPanic
        /\ last.alloc.v.ret = GlyphAllocation_default
        /\ is_nothing(last.alloc.v.ret.uv_rect)
        /\ atlas.allocs = last.alloc.v.allocs_before
        /\ FontImpl_allocate_glyph(fonts_by_id[last.alloc.v.key], last.alloc.v.glyph_info,
                                   atlas, last.alloc.v.font_size,
                                   last.alloc.v.pixels_per_point) =
               [panic |-> NoPanic, ret |-> GlyphAllocation_default,
                self |-> fonts_by_id[last.alloc.v.key], atlas |-> atlas]
        /\ FontImpl_allocate_glyph(PoisonedFace, last.alloc.v.glyph_info, atlas,
                                   last.alloc.v.font_size,
                                   last.alloc.v.pixels_per_point).ret =
               GlyphAllocation_default

\* the identity has advance 0 and is not visible
ZeroWidth(g) == g.advance_width_unscaled = R(0) /\ ~g.visible

\* the characters of S resolve to zero-width identities: as the result of
\* FontImpl::glyph_info and in every face's character cache
ResolveInvisible(S) ==
    /\ (last.op = "FontImpl::glyph_info" /\ last.args[2] \in S) =>
           (last.ret.some /\ ZeroWidth(last.ret.v))
    /\ \A key \in DOMAIN fonts_by_id :
           \A c \in S \cap DOMAIN fonts_by_id[key].glyph_info_cache :
               ZeroWidth(fonts_by_id[key].glyph_info_cache[c])

\* C3 (as amended): every character of the zero-width format/control set
\* (invisible_char) resolves to an identity with advance 0 and visible =
\* false, and allocate_glyph of that identity returns the default
\* nothing-allocation without an atlas call and without reading or writing
\* the raster cache.  The denylisted characters are not part of the law.
C3_InvisibleCharacters == ResolveInvisible(InvisibleChars) /\ NothingAllocated

\* the carriage return, which the font of the face maps, has been resolved
\* on the face as invisible, and allocate_glyph of its identity has returned
\* the nothing-allocation
C3_Witness ==
    /\ last.op = "FontImpl::allocate_glyph"
    /\ AllocatedInvisible
    /\ glyph_id(fonts_by_id[last.alloc.v.key].ab_glyph_font, CR) # 0
    /\ CR \in DOMAIN fonts_by_id[last.alloc.v.key].glyph_info_cache
    /\ last.alloc.v.glyph_info = fonts_by_id[last.alloc.v.key].glyph_info_cache[CR]
    /\ ZeroWidth(last.alloc.v.glyph_info)
    /\ last.ret = GlyphAllocation_default

\* C3 as stated: every character of the denylist and of the format/control
\* set resolves to an identity with advance 0 and visible = false that
\* allocate_glyph answers with the default nothing-allocation.
C3_Original == ResolveInvisible(IgnoredChars \cup InvisibleChars) /\ NothingAllocated

\* C4: has_glyph(c) is false exactly when the pair glyph_info resolves for c
\* equals the family's replacement pair; has_glyph of the replacement
\* character is false even when a face maps it.
C4_HasGlyph ==
    (last.op = "has_glyph" /\ FamilyRegistered) =>
        /\ last.args[1] \in DOMAIN cached_family.glyph_info_cache
        /\ last.ret = FALSE <=>
               cached_family.glyph_info_cache[last.args[1]] = cached_family.replacement_glyph
        /\ last.args[1] = REPLACEMENT_CHAR => last.ret = FALSE

\* has_glyph of the replacement character answered false in a family with a
\* face that maps it
C4_Witness ==
    /\ last.op = "has_glyph"
    /\ last.args = <<REPLACEMENT_CHAR>>
    /\ last.ret = FALSE
    /\ cached_family.replacement_glyph[1] \in DOMAIN fonts_by_id
    /\ cached_family.replacement_glyph[2].id # 0
    /\ Resolving(REPLACEMENT_CHAR) # {}

\* C5: a character no face of the family resolves yields the family's
\* replacement pair, which the first lookup stores in the family cache; a
\* later lookup of the character returns that pair and invokes no face's
\* resolution.
C5_UnresolvedCached ==
    LookedUp =>
        LET c == last.args[1]
            unresolved == Resolving(c) = {}
        IN  unresolved =>
                /\ c \in DOMAIN cached_family.glyph_info_cache
                /\ cached_family.glyph_info_cache[c] = cached_family.replacement_glyph
                /\ (last.op = "font_impl_and_glyph_info" /\ panic = NoPanic) =>
                       last.ret = <<Some(cached_family.replacement_glyph[1]),
                                    cached_family.replacement_glyph[2]>>
                /\ last.op = "has_glyph" => last.ret = FALSE
                /\ last.hit => (last.calls = 0 /\ last.consulted = <<>>)
                /\ ~last.hit => last.consulted = cached_family.fonts

\* a second lookup of a character no face of a two-face family resolves:
\* the replacement pair of a face is returned and no face is asked
C5_Witness ==
    /\ last.op = "font_impl_and_glyph_info"
    /\ panic = NoPanic
    /\ Len(cached_family.fonts) = 2
    /\ Resolving(last.args[1]) = {}
    /\ last.hit
    /\ last.calls = 0
    /\ cached_family.replacement_glyph[2].id # 0
    /\ last.ret = <<Some(cached_family.replacement_glyph[1]),
                    cached_family.replacement_glyph[2]>>

\* C6: on a miss of the family cache the faces are tried in family order and
\* the key and identity of the first face that resolves the character are
\* returned and cached, a later face never being chosen when an earlier one
\* resolves it; on a hit no face is consulted.
C6_FamilyOrder ==
    LookedUp =>
        LET c == last.args[1]
            resolving == Resolving(c)
            first == CHOOSE i \in resolving : \A j \in resolving : i <= j
            key == cached_family.fonts[first]
        IN  /\ c \in DOMAIN cached_family.glyph_info_cache
            /\ last.hit => (last.consulted = <<>> /\ last.calls = 0)
            /\ resolving # {} =>
                   /\ cached_family.glyph_info_cache[c] =
                          <<key, FontImpl_glyph_info(fonts_by_id[key], c).ret.v>>
                   /\ ~last.hit => last.consulted = SubSeq(cached_family.fonts, 1, first)
                   /\ (last.op = "font_impl_and_glyph_info" /\ panic = NoPanic) =>
                          last.ret = <<Some(key), cached_family.glyph_info_cache[c][2]>>

\* a miss on which the first face of the family did not resolve the
\* character and the second did
C6_Witness ==
    /\ last.op = "font_impl_and_glyph_info"
    /\ panic = NoPanic
    /\ ~last.hit
    /\ Resolving(last.args[1]) = {2}
    /\ last.consulted = cached_family.fonts
    /\ last.ret[1] = Some(cached_family.fonts[2])
    /\ last.ret[2].visible

\* C7: on a face whose font maps the space with unscaled advance w, the tab
\* resolves to an identity of unscaled advance TAB_SIZE * w whose glyph id
\* and visibility are those of the space's identity, whatever the face's
\* cache holds.
C7_TabAdvance ==
    /\ \A key \in DOMAIN fonts_by_id :
           (MapsSpace(fonts_by_id[key]) /\ TAB \in DOMAIN fonts_by_id[key].glyph_info_cache) =>
               /\ SPACE \in DOMAIN fonts_by_id[key].glyph_info_cache
               /\ fonts_by_id[key].glyph_info_cache[TAB] =
                      GlyphInfo(fonts_by_id[key].glyph_info_cache[SPACE].id,
                                RMul(R(TAB_SIZE), SpaceAdvance(fonts_by_id[key])),
                                fonts_by_id[key].glyph_info_cache[SPACE].visible)
    /\ (/\ last.op = "FontImpl::glyph_info"
        /\ last.args[2] = TAB
        /\ MapsSpace(fonts_by_id[last.args[1]])) =>
           /\ TAB \in DOMAIN fonts_by_id[last.args[1]].glyph_info_cache
           /\ last.ret = Some(fonts_by_id[last.args[1]].glyph_info_cache[TAB])

\* the tab resolved on a face whose font maps the space: four times the
\* advance of the space, the glyph of the space
C7_Witness ==
    /\ last.op = "FontImpl::glyph_info"
    /\ last.args[2] = TAB
    /\ MapsSpace(fonts_by_id[last.args[1]])
    /\ last.ret.some
    /\ last.ret.v.advance_width_unscaled = RMul(R(4), SpaceAdvance(fonts_by_id[last.args[1]]))
    /\ last.ret.v.id = glyph_id(fonts_by_id[last.args[1]].ab_glyph_font, SPACE)
    /\ RLess(R(0), SpaceAdvance(fonts_by_id[last.args[1]]))

\* C8: on a face whose font maps the space with unscaled advance w, the thin
\* space U+2009 resolves to an identity of unscaled advance
\* min(unitsPerEm / 6, 0.5 * w) whose glyph id and visibility are those of
\* the space's identity.
C8_ThinSpaceAdvance ==
    /\ \A key \in DOMAIN fonts_by_id :
           (/\ MapsSpace(fonts_by_id[key])
            /\ units_per_em(fonts_by_id[key].ab_glyph_font).some
            /\ THIN_SPACE \in DOMAIN fonts_by_id[key].glyph_info_cache) =>
               /\ SPACE \in DOMAIN fonts_by_id[key].glyph_info_cache
               /\ fonts_by_id[key].glyph_info_cache[THIN_SPACE] =
                      GlyphInfo(fonts_by_id[key].glyph_info_cache[SPACE].id,
                                RMin(RDiv(units_per_em(fonts_by_id[key].ab_glyph_font).v, R(6)),
                                     RMul(Rat(1, 2), SpaceAdvance(fonts_by_id[key]))),
                                fonts_by_id[key].glyph_info_cache[SPACE].visible)
    /\ (/\ last.op = "FontImpl::glyph_info"
        /\ last.args[2] = THIN_SPACE
        /\ MapsSpace(fonts_by_id[last.args[1]])) =>
           /\ THIN_SPACE \in DOMAIN fonts_by_id[last.args[1]].glyph_info_cache
           /\ last.ret = Some(fonts_by_id[last.args[1]].glyph_info_cache[THIN_SPACE])

\* the thin space resolved on a face whose em / 6 is narrower than half its
\* space
C8_Witness ==
    /\ last.op = "FontImpl::glyph_info"
    /\ last.args[2] = THIN_SPACE
    /\ MapsSpace(fonts_by_id[last.args[1]])
    /\ units_per_em(fonts_by_id[last.args[1]].ab_glyph_font).some
    /\ last.ret.some
    /\ last.ret.v.advance_width_unscaled =
           RDiv(units_per_em(fonts_by_id[last.args[1]].ab_glyph_font).v, R(6))
    /\ RLess(last.ret.v.advance_width_unscaled,
             RMul(Rat(1, 2), SpaceAdvance(fonts_by_id[last.args[1]])))
    /\ last.ret.v.id = glyph_id(fonts_by_id[last.args[1]].ab_glyph_font, SPACE)

\* the operations that only query metrics
MetricsOps == {"glyph_width", "has_glyph", "has_glyphs", "preload_characters",
               "preload_common_characters"}

\* C9: glyph_width, has_glyph, has_glyphs, preload_characters and
\* preload_common_characters leave the atlas and every face's raster cache
\* unchanged.
C9_MetricsOnly ==
    [][last'.op \in MetricsOps =>
           /\ atlas' = atlas
           /\ DOMAIN fonts_by_id' = DOMAIN fonts_by_id
           /\ \A key \in DOMAIN fonts_by_id :
                  fonts_by_id'[key].glyph_alloc_cache = fonts_by_id[key].glyph_alloc_cache]_vars

\* glyph_width has resolved a character anew, in a state with a rasterized
\* glyph in the atlas and in a raster cache
C9_Witness ==
    /\ last.op = "glyph_width"
    /\ panic = NoPanic
    /\ last.calls > 0
    /\ RLess(R(0), last.ret)
    /\ atlas.allocs > 0
    /\ \E key \in DOMAIN fonts_by_id : fonts_by_id[key].glyph_alloc_cache # EmptyMap

\* C10 (as amended): after FontImpl::glyph_info(c) returns an identity, the
\* face's character cache holds that identity under c; after it returns
\* None (a denylisted character, a character the font does not map) the
\* cache holds no entry for c.
C10_OutcomeCached ==
    last.op = "FontImpl::glyph_info" =>
        IF last.ret.some
        THEN /\ last.args[2] \in DOMAIN fonts_by_id[last.args[1]].glyph_info_cache
             /\ fonts_by_id[last.args[1]].glyph_info_cache[last.args[2]] = last.ret.v
        ELSE last.args[2] \notin DOMAIN fonts_by_id[last.args[1]].glyph_info_cache

\* a denylisted character the font maps, resolved to None on a face with a
\* built-in name: the face's cache holds nothing for it
C10_Witness ==
    /\ last.op = "FontImpl::glyph_info"
    /\ last.args[2] \in IgnoredChars
    /\ glyph_id(fonts_by_id[last.args[1]].ab_glyph_font, last.args[2]) # 0
    /\ last.ret = None
    /\ last.args[2] \notin DOMAIN fonts_by_id[last.args[1]].glyph_info_cache

\* C10 as stated: after FontImpl::glyph_info(c) returns, whichever rule
\* produced the outcome, the face's character cache holds an entry for c.
C10_Original ==
    last.op = "FontImpl::glyph_info" =>
        last.args[2] \in DOMAIN fonts_by_id[last.args[1]].glyph_info_cache

\* C11: pair_kerning looks kerning up at exactly the rounded pixel scale at
\* which allocate_glyph rasterizes and keys its cache for the same font size
\* and pixels per point, also on faces whose unscaled height differs from
\* unitsPerEm.
C11_KerningScale ==
    (last.op = "FontImpl::pair_kerning" /\ panic = NoPanic) =>
        /\ KernScale(fonts_by_id[last.args[1]], last.args[4], last.args[5]) =
               AllocScale(fonts_by_id[last.args[1]], last.args[4], last.args[5])
        /\ last.ret =
               RDiv(RMul(kern_unscaled(fonts_by_id[last.args[1]].ab_glyph_font,
                                       last.args[2], last.args[3]),
                         RDiv(AllocScale(fonts_by_id[last.args[1]], last.args[4],
                                         last.args[5]),
                              height_unscaled(fonts_by_id[last.args[1]].ab_glyph_font))),
                    last.args[5])

\* C12: the allocation allocate_glyph returns for a visible glyph carries
\* advance_width = advance_width_unscaled * scale / unitsPerEm /
\* pixels_per_point with scale = round(font_size * tweak.scale *
\* pixels_per_point), for the font size and pixels per point of that call.
C12_AdvanceWidth ==
    (/\ last.op = "FontImpl::allocate_glyph"
     /\ panic = NoPanic
     /\ last.alloc.some
     /\ last.alloc.v.glyph_info.visible) =>
        last.alloc.v.ret.advance_width =
            RDiv(RDiv(RMul(last.alloc.v.glyph_info.advance_width_unscaled,
                           R(RoundI(RMul(RMul(last.alloc.v.font_size,
                                              fonts_by_id[last.alloc.v.key].tweak.scale),
                                         last.alloc.v.pixels_per_point)))),
                      units_per_em(fonts_by_id[last.alloc.v.key].ab_glyph_font).v),
                 last.alloc.v.pixels_per_point)

\* C13: when the family lists a face key that the registry does not hold,
\* each of characters, row_height, ascent, glyph_width,
\* font_impl_and_glyph_info and font_impl_and_glyph_alloc ends in the fatal
\* error "Nonexistent font ID" instead of returning a value.
C13_MissingFaceFatal ==
    (/\ ~FamilyRegistered
     /\ last.op \in {"characters", "row_height", "ascent", "glyph_width",
                     "font_impl_and_glyph_info", "font_impl_and_glyph_alloc"}) =>
        panic = PANIC_FONT_ID

\* The outline of the glyph at the scale is absent, or its pixel box has
\* zero width or zero height.
NoPixels(f, id, scale) ==
    Let(outline_glyph(f, id, scale),
        LAMBDA og : \/ ~og.some
                    \/ AsUsize(og.v.max_x - og.v.min_x) = 0
                    \/ AsUsize(og.v.max_y - og.v.min_y) = 0)

\* The last step ran allocate_glyph to a cache miss for a visible identity
\* with a non-zero id and returned.
AllocMissed ==
    /\ last.alloc.some
    /\ panic = NoPanic
    /\ last.alloc.v.glyph_info.visible
    /\ last.alloc.v.glyph_info.id # 0
    /\ ~last.alloc.v.repeat

\* C14: a miss of allocate_glyph for a visible identity with a non-zero id
\* whose outline is absent, or whose pixel box has zero width or height,
\* takes no atlas region, returns the nothing rectangle with the scaled
\* advance width, and inserts that allocation into the raster cache.
C14_NoPixelsAllocation ==
    (/\ AllocMissed
     /\ NoPixels(fonts_by_id[last.alloc.v.key].ab_glyph_font,
                 last.alloc.v.glyph_info.id, last.alloc.v.scale)) =>
        /\ atlas.allocs = last.alloc.v.allocs_before
        /\ last.alloc.v.ret.uv_rect = UvRect_default
        /\ last.alloc.v.ret.id = last.alloc.v.glyph_info.id
        /\ last.alloc.v.ret.advance_width =
               AllocAdvanceWidth(fonts_by_id[last.alloc.v.key], last.alloc.v.glyph_info,
                                 last.alloc.v.scale, last.alloc.v.pixels_per_point)
        /\ last.alloc.v.glyph_info.advance_width_unscaled # R(0) =>
               last.alloc.v.ret.advance_width # R(0)
        /\ <<last.alloc.v.glyph_info, last.alloc.v.scale>> \in
               DOMAIN fonts_by_id[last.alloc.v.key].glyph_alloc_cache
        /\ fonts_by_id[last.alloc.v.key].glyph_alloc_cache[
               <<last.alloc.v.glyph_info, last.alloc.v.scale>>] = last.alloc.v.ret

\* a glyph with an outline of zero width was allocated on a miss and came
\* back with a positive advance width
C14_Witness ==
    /\ AllocMissed
    /\ outline_glyph(fonts_by_id[last.alloc.v.key].ab_glyph_font,
                     last.alloc.v.glyph_info.id, last.alloc.v.scale).some
    /\ NoPixels(fonts_by_id[last.alloc.v.key].ab_glyph_font,
                last.alloc.v.glyph_info.id, last.alloc.v.scale)
    /\ RLess(R(0), last.alloc.v.ret.advance_width)
    /\ last.alloc.v.ret.uv_rect = UvRect_default

\* C15: when FontImpl::glyph_info resolves the tab on a face whose font maps
\* the space and whose cache has no entry for the space, the call succeeds,
\* and afterwards the cache holds the space (the identity of the plain font
\* lookup) and the tab (the identity derived from it), and nothing else new.
C15_TabCachesSpace ==
    [][\A key \in DOMAIN fonts_by_id :
           (/\ MapsSpace(fonts_by_id[key])
            /\ SPACE \notin DOMAIN fonts_by_id[key].glyph_info_cache
            /\ last'.op = "FontImpl::glyph_info"
            /\ last'.args = <<key, TAB>>) =>
               /\ panic' = NoPanic
               /\ DOMAIN fonts_by_id'[key].glyph_info_cache =
                      DOMAIN fonts_by_id[key].glyph_info_cache \cup {SPACE, TAB}
               /\ fonts_by_id'[key].glyph_info_cache[SPACE] =
                      GlyphInfo(glyph_id(fonts_by_id[key].ab_glyph_font, SPACE),
                                SpaceAdvance(fonts_by_id[key]), TRUE)
               /\ fonts_by_id'[key].glyph_info_cache[TAB] =
                      GlyphInfo(glyph_id(fonts_by_id[key].ab_glyph_font, SPACE),
                                RMul(R(TAB_SIZE), SpaceAdvance(fonts_by_id[key])), TRUE)
               /\ last'.ret = Some(fonts_by_id'[key].glyph_info_cache[TAB])]_vars

\* the first call made resolved the tab on a face whose font maps the space:
\* the cache was empty before and holds exactly the space and the tab after
C15_Witness ==
    /\ steps = 1
    /\ last.op = "FontImpl::glyph_info"
    /\ last.args[2] = TAB
    /\ MapsSpace(fonts_by_id[last.args[1]])
    /\ last.ret.some
    /\ DOMAIN fonts_by_id[last.args[1]].glyph_info_cache = {SPACE, TAB}
    /\ fonts_by_id[last.args[1]].glyph_info_cache[SPACE] #
           fonts_by_id[last.args[1]].glyph_info_cache[TAB]

\* the face carries one of the built-in font names
BuiltinFace(self) == self.name \in builtin_font_names

\* C16: on a face with a built-in name FontImpl::glyph_info answers None for
\* every denylisted character, no such character is ever in the face's
\* cache, and characters() lists the face under no such character; on a
\* face with any other name the denylist has no effect: the character
\* resolves by the font lookup and is listed when the font maps it.
C16_Denylist ==
    /\ \A key \in DOMAIN fonts_by_id :
           BuiltinFace(fonts_by_id[key]) =>
               IgnoredChars \cap DOMAIN fonts_by_id[key].glyph_info_cache = {}
    /\ (last.op = "FontImpl::glyph_info" /\ last.args[2] \in IgnoredChars) =>
           IF BuiltinFace(fonts_by_id[last.args[1]])
           THEN last.ret = None
           ELSE last.ret = FontLookup(fonts_by_id[last.args[1]], last.args[2])
    /\ (last.op = "characters" /\ panic = NoPanic) =>
           \A chr \in IgnoredChars, i \in 1..Len(cached_family.fonts) :
               (/\ chr \in DOMAIN last.ret
                /\ \E j \in 1..Len(last.ret[chr]) :
                       last.ret[chr][j] = fonts_by_id[cached_family.fonts[i]].name)
                   <=> (/\ ~BuiltinFace(fonts_by_id[cached_family.fonts[i]])
                        /\ chr \in codepoint_ids(fonts_by_id[cached_family.fonts[i]].ab_glyph_font))

\* a face with a built-in name was asked for a denylisted character that its
\* font maps, and answered None
C16_Witness ==
    /\ last.op = "FontImpl::glyph_info"
    /\ last.args[2] \in IgnoredChars
    /\ BuiltinFace(fonts_by_id[last.args[1]])
    /\ glyph_id(fonts_by_id[last.args[1]].ab_glyph_font, last.args[2]) # 0
    /\ last.ret = None

\* every entry of map m is in map n with the same value
Extends(n, m) ==
    \A k \in DOMAIN m : k \in DOMAIN n /\ n[k] = m[k]

\* C17: the character cache and the raster cache of every face only grow:
\* no step removes an entry or changes the value stored under a key.
C17_CachesAppendOnly ==
    [][\A key \in DOMAIN fonts_by_id :
           /\ Extends(fonts_by_id'[key].glyph_info_cache, fonts_by_id[key].glyph_info_cache)
           /\ Extends(fonts_by_id'[key].glyph_alloc_cache,
                      fonts_by_id[key].glyph_alloc_cache)]_vars

\* after two calls one face holds several characters and an allocation: the
\* second call ran on caches the first had filled
C17_Witness ==
    /\ steps = 2
    /\ \E key \in DOMAIN fonts_by_id :
           /\ Cardinality(DOMAIN fonts_by_id[key].glyph_info_cache) >= 3
           /\ Cardinality(DOMAIN fonts_by_id[key].glyph_alloc_cache) >= 1
           /\ last.consulted = <<key>>

\* the pixel box allocate_glyph measured for the glyph of the last
\* allocation: <<glyph_width, glyph_height>>
LastBox ==
    Let(outline_glyph(fonts_by_id[last.alloc.v.key].ab_glyph_font,
                      last.alloc.v.glyph_info.id, last.alloc.v.scale).v,
        LAMBDA bb : <<AsUsize(bb.max_x - bb.min_x), AsUsize(bb.max_y - bb.min_y)>>)

\* the position the atlas returned for it: the cursor stands one padding to
\* the right of the region, in its row
LastPlacement == <<atlas.cursor[1] - ATLAS_PADDING - LastBox[1], atlas.cursor[2]>>

\* the last step obtained an atlas region for a glyph
RegionObtained ==
    /\ AllocMissed
    /\ atlas.allocs = last.alloc.v.allocs_before + 1

\* C18: whenever allocate_glyph obtained an atlas region of width w > 0 and
\* height h > 0 at position p, the returned UvRect has min = p and
\* max = p + (w, h) on both axes, so max - min = (w, h) and the rectangle
\* is not nothing, for every position the atlas returns, those where
\* p + (w, h) does not fit in 16 bits included.
C18_UvRectCorners ==
    RegionObtained =>
        /\ LastBox[1] > 0 /\ LastBox[2] > 0
        /\ last.alloc.v.ret.uv_rect.min = LastPlacement
        /\ last.alloc.v.ret.uv_rect.max =
               <<LastPlacement[1] + LastBox[1], LastPlacement[2] + LastBox[2]>>
        /\ last.alloc.v.ret.uv_rect.max[1] - last.alloc.v.ret.uv_rect.min[1] = LastBox[1]
        /\ last.alloc.v.ret.uv_rect.max[2] - last.alloc.v.ret.uv_rect.min[2] = LastBox[2]
        /\ ~is_nothing(last.alloc.v.ret.uv_rect)

\* C19: every entry c -> (key, identity) of the family cache is the
\* replacement pair, or the cache of the face registered under key holds
\* c -> identity.
C19_FamilyCacheBacked ==
    \A c \in DOMAIN cached_family.glyph_info_cache :
        \/ cached_family.glyph_info_cache[c] = cached_family.replacement_glyph
        \/ /\ cached_family.glyph_info_cache[c][1] \in DOMAIN fonts_by_id
           /\ c \in DOMAIN fonts_by_id[cached_family.glyph_info_cache[c][1]].glyph_info_cache
           /\ fonts_by_id[cached_family.glyph_info_cache[c][1]].glyph_info_cache[c] =
                  cached_family.glyph_info_cache[c][2]

\* the family cache holds a character that fell back to the replacement
\* pair and one that the second face of the family resolved
C19_Witness ==
    /\ Len(cached_family.fonts) = 2
    /\ cached_family.replacement_glyph[1] \in DOMAIN fonts_by_id
    /\ \E c \in DOMAIN cached_family.glyph_info_cache :
           /\ cached_family.glyph_info_cache[c] = cached_family.replacement_glyph
           /\ c \notin DOMAIN fonts_by_id[cached_family.replacement_glyph[1]].glyph_info_cache
    /\ \E c \in DOMAIN cached_family.glyph_info_cache :
           /\ cached_family.glyph_info_cache[c] # cached_family.replacement_glyph
           /\ cached_family.glyph_info_cache[c][1] = cached_family.fonts[2]

\* the advance widths allocate_glyph computes for the identity at the scale
\* on the face, one for each pixel density in use
OwnAdvances(self, glyph_info, scale) ==
    {AllocAdvanceWidth(self, glyph_info, scale, rs[2]) : rs \in RenderSettings}

\* C20: identities that share a glyph id and differ in unscaled advance
\* occupy distinct keys of the raster cache, and every allocation, cached or
\* returned, carries the glyph id and an advance width computed from its
\* own identity's unscaled advance.
C20_AdvanceKeyed ==
    /\ \A key \in DOMAIN fonts_by_id :
           \A k \in DOMAIN fonts_by_id[key].glyph_alloc_cache :
               /\ fonts_by_id[key].glyph_alloc_cache[k].id = k[1].id
               /\ fonts_by_id[key].glyph_alloc_cache[k].advance_width \in
                      OwnAdvances(fonts_by_id[key], k[1], k[2])
    /\ (last.alloc.some /\ panic = NoPanic /\ last.alloc.v.glyph_info.visible) =>
           /\ <<last.alloc.v.glyph_info, last.alloc.v.scale>> \in
                  DOMAIN fonts_by_id[last.alloc.v.key].glyph_alloc_cache
           /\ last.alloc.v.ret =
                  fonts_by_id[last.alloc.v.key].glyph_alloc_cache[
                      <<last.alloc.v.glyph_info, last.alloc.v.scale>>]
           /\ last.alloc.v.ret.advance_width \in
                  OwnAdvances(fonts_by_id[last.alloc.v.key], last.alloc.v.glyph_info,
                              last.alloc.v.scale)

\* the raster cache of a face holds, at one scale, two identities with the
\* same glyph id and different unscaled advances (the tab and the thin
\* space, both drawn with the glyph of the space), and the allocation just
\* returned is the second one's, with a different advance width
C20_Witness ==
    /\ last.alloc.some
    /\ panic = NoPanic
    /\ ~last.alloc.v.repeat
    /\ \E k \in DOMAIN fonts_by_id[last.alloc.v.key].glyph_alloc_cache :
           /\ k[1].id = last.alloc.v.glyph_info.id
           /\ k[2] = last.alloc.v.scale
           /\ k[1].advance_width_unscaled # last.alloc.v.glyph_info.advance_width_unscaled
           /\ fonts_by_id[last.alloc.v.key].glyph_alloc_cache[k].advance_width #
                  last.alloc.v.ret.advance_width
           /\ OwnAdvances(fonts_by_id[last.alloc.v.key], k[1], k[2]) \cap
                  OwnAdvances(fonts_by_id[last.alloc.v.key], last.alloc.v.glyph_info,
                              last.alloc.v.scale) = {}

====
